---------------------------- MODULE Spec2Model ----------------------------
(***************************************************************************)
(* A model of pg_metrics (src/pg_metrics.c): a fixed-capacity registry of  *)
(* named 64-bit counters in shared memory.  Backends call                  *)
(* pgmet_counter_add(name, increment) and pgmet_metrics(); the registry is *)
(* a dynahash table guarded by one LWLock, every entry carries a spinlock  *)
(* that guards its value.                                                  *)
(*                                                                         *)
(* One action is one step of one backend between two points where another  *)
(* backend can observe or change shared memory: taking a lock, the work    *)
(* done under it up to its release, a read or a write of a counter value.  *)
(***************************************************************************)
EXTENDS Integers, Sequences, FiniteSets, TLC

(***************************************************************************)
(* Bounds of the model.                                                    *)
(***************************************************************************)
NumProcs == 2       \* backends
MaxCalls == 2       \* calls a backend makes over a run
IntBits  == 4       \* width of a counter value, standing for the 64 of int64
pgmet_max == 2      \* the pg_metrics.max setting the registry was sized with

MAXMETRICSNAMELEN == 127
VARHDRSZ == 4

Procs == 1..NumProcs

(***************************************************************************)
(* Names are byte strings; a name is modelled by one byte and the number   *)
(* of times it is repeated, so that names of 127 and 128 bytes exist.      *)
(***************************************************************************)
MkName(c, l) == [ch |-> c, len |-> l]
NameA    == MkName("a", 1)
NameB    == MkName("b", MAXMETRICSNAMELEN)
NameC    == MkName("c", 1)
NameLong == MkName("a", MAXMETRICSNAMELEN + 1)
Names    == {NameA, NameB, NameC, NameLong}

INT64_MAX == 2^(IntBits - 1) - 1
INT64_MIN == -(2^(IntBits - 1))
Int64     == INT64_MIN..INT64_MAX
Deltas    == {0, 1, INT64_MIN}

\* a variant of Int64Add that saturates at the ends of the range
Int64Add_Saturating(v, d) ==
    IF v + d > INT64_MAX THEN INT64_MAX
    ELSE IF v + d < INT64_MIN THEN INT64_MIN ELSE v + d

\* a variant of Int64Add that adds one more than it is given
Int64Add_CarryIn(v, d) ==
    ((v + d + 1 - INT64_MIN) % 2^IntBits) + INT64_MIN

\* int64 addition as the build computes it (two's complement, -fwrapv)
Int64Add(v, d) == ((v + d - INT64_MIN) % 2^IntBits) + INT64_MIN

\* VARSIZE of the text argument: its 4-byte header and its bytes
VARSIZE(n) == n.len + VARHDRSZ

\* a variant of NameTooLong that is off by one
NameTooLong_OffByOne(n) == VARSIZE(n) - VARHDRSZ >= MAXMETRICSNAMELEN

\* the length test of pgmet_counter_add
NameTooLong(n) == VARSIZE(n) - VARHDRSZ > MAXMETRICSNAMELEN

VARIABLES
    pgmet,        \* whether the shared state is attached (pgmet != NULL)
    lock,         \* pgmet->lock: [excl |-> holder or 0, shared |-> set of holders]
    hash,         \* pgmet_shared_hash: the sequence of its entries
    pc,           \* where each backend is
    name,         \* counter_add: metric_name, then the C string made of it
    metric,       \* the entry a backend points at (its index in hash; 0 is NULL)
    prev,         \* counter_add: prev
    num_metrics,  \* pgmet_metrics: num_metrics
    metrics,      \* pgmet_metrics: metrics[] and metric_names[], as entry indexes
    i,            \* pgmet_metrics: i
    tuples,       \* pgmet_metrics: the tuplestore
    ncalls,       \* history: the calls each backend has started so far
    ghost,        \* history: what each backend's current or last call saw
    log           \* history: the counter_add calls that have ended

shared == <<pgmet, lock, hash>>
addloc == <<name, prev>>
metloc == <<num_metrics, metrics, i, tuples>>
hist   == <<ncalls, ghost, log>>
vars   == <<pgmet, lock, hash, pc, name, metric, prev,
           num_metrics, metrics, i, tuples, ncalls, ghost, log>>

NoName  == MkName("", 0)
NoGhost == [op |-> "none", existed |-> FALSE, created |-> FALSE,
            quiet |-> FALSE, live |-> {}, snap |-> {}]

(***************************************************************************)
(* Pointers.  A key's name_ptr points either at the C string a backend     *)
(* made of its argument or at the metric_name of an entry.                 *)
(***************************************************************************)
CStringOf(p) == [at |-> "cstring", of |-> p]
InlineOf(e)  == [at |-> "entry", of |-> e]

\* the bytes a name_ptr points at
Bytes(ptr) ==
    IF ptr.at = "cstring" THEN name[ptr.of].ch ELSE hash[ptr.of].metric_name.ch

\* key.name_ptr = name; key.name_len = strlen(name)
MakeKey(p) == [name_ptr |-> CStringOf(p), name_len |-> name[p].len]

\* pgmet_shared_match_fn: zero means match
pgmet_shared_match_fn(k1, k2) ==
    IF k1.name_len = k2.name_len /\ Bytes(k1.name_ptr) = Bytes(k2.name_ptr)
    THEN 0 ELSE 1

\* hash_get_num_entries(pgmet_shared_hash)
hash_get_num_entries == Len(hash)

\* a variant of hash_search_find that never looks at the last entry
hash_search_find_SkipLast(key) ==
    IF \E e \in 1..(Len(hash) - 1) : pgmet_shared_match_fn(hash[e].key, key) = 0
    THEN CHOOSE e \in 1..(Len(hash) - 1) :
             pgmet_shared_match_fn(hash[e].key, key) = 0
    ELSE 0

\* a variant of hash_search_find that finds nothing
hash_search_find_Never(key) == 0

\* hash_search(pgmet_shared_hash, key, HASH_FIND): the entry's index, 0 for NULL
hash_search_find(key) ==
    IF \E e \in 1..Len(hash) : pgmet_shared_match_fn(hash[e].key, key) = 0
    THEN CHOOSE e \in 1..Len(hash) : pgmet_shared_match_fn(hash[e].key, key) = 0
    ELSE 0

\* a variant of hash_seq_search that passes over the first entry
hash_seq_search_SkipFirst == [k \in 1..(Len(hash) - 1) |-> k + 1]

\* hash_seq_init and hash_seq_search to the end: the entries, each once
hash_seq_search == [k \in 1..Len(hash) |-> k]

\* a variant of MetricTuple that takes every name from metric_names[0]
MetricTuple_FirstName(e) == <<hash[1].metric_name, "COUNTER", hash[e].value>>

\* the tuple pgmet_metrics stores for entry e (lines 199-207)
MetricTuple(e) == <<hash[e].metric_name, "COUNTER", hash[e].value>>

\* what the memory of an entry fresh from the table holds before it is set
Garbage == {0, INT64_MAX}

\* hash_search(..., HASH_ENTER) of a key that is not there: dynahash copies
\* the caller's key into a new element and initializes nothing else
RawEntry(key, g) ==
    [key |-> key, metric_name |-> NoName, type |-> "raw", mutex |-> -1,
     value |-> g]

\* a variant of InitEntry that leaves the value as it finds it
InitEntry_ValueNotSet(e, p) ==
    [key         |-> [name_ptr |-> InlineOf(e), name_len |-> hash[e].key.name_len],
     type        |-> "COUNTER",
     mutex       |-> 0,
     value       |-> hash[e].value,
     metric_name |-> MkName(Bytes(MakeKey(p).name_ptr), MakeKey(p).name_len)]

\* the initialization of a new entry by pgmet_upsert_metric
InitEntry(e, p) ==
    [key         |-> [name_ptr |-> InlineOf(e), name_len |-> hash[e].key.name_len],
     type        |-> "COUNTER",
     mutex       |-> 0,
     value       |-> 0,
     metric_name |-> MkName(Bytes(MakeKey(p).name_ptr), MakeKey(p).name_len)]

\* a variant of CapacityReached that is off by one
CapacityReached_OffByOne == hash_get_num_entries > pgmet_max

\* the capacity test of pgmet_upsert_metric
CapacityReached == hash_get_num_entries >= pgmet_max

(***************************************************************************)
(* The LWLock and the spinlocks.                                           *)
(***************************************************************************)
\* a variant of LWLockFreeFor that grants a shared hold at any time
LWLockFreeFor_SharedAnyTime(mode) ==
    IF mode = "LW_EXCLUSIVE" THEN lock.excl = 0 /\ lock.shared = {}
    ELSE TRUE

LWLockFreeFor(mode) ==
    IF mode = "LW_EXCLUSIVE" THEN lock.excl = 0 /\ lock.shared = {}
    ELSE lock.excl = 0

LWLockAcquire(p, mode) ==
    /\ LWLockFreeFor(mode)
    /\ lock' = IF mode = "LW_EXCLUSIVE" THEN [lock EXCEPT !.excl = p]
               ELSE [lock EXCEPT !.shared = @ \cup {p}]

\* a variant of LWLockRelease that leaves an exclusive hold in place
LWLockRelease_KeepExclusive(p) ==
    lock' = [excl |-> lock.excl, shared |-> lock.shared \ {p}]

\* a variant of LWLockRelease that leaves a shared hold in place
LWLockRelease_KeepShared(p) ==
    lock' = [excl |-> IF lock.excl = p THEN 0 ELSE lock.excl,
             shared |-> lock.shared]

LWLockRelease(p) ==
    lock' = [excl |-> IF lock.excl = p THEN 0 ELSE lock.excl,
             shared |-> lock.shared \ {p}]

\* a variant of SpinLockFree that does not wait for the holder
SpinLockFree_NoWait(e) == TRUE

\* a variant of SpinLockFree that also waits for the LWLock to be free
SpinLockFree_AndLWLock(e) == hash[e].mutex = 0 /\ lock.excl = 0

SpinLockFree(e) == hash[e].mutex = 0

\* a variant of NoSharedState that leaves the test out
NoSharedState_NotTested == FALSE

\* the test of line 104
NoSharedState == ~pgmet

Init ==
    /\ pgmet \in BOOLEAN
    /\ lock = [excl |-> 0, shared |-> {}]
    /\ hash = <<>>
    /\ pc = [p \in Procs |-> "idle"]
    /\ name = [p \in Procs |-> NoName]
    /\ metric = [p \in Procs |-> 0]
    /\ prev = [p \in Procs |-> 0]
    /\ num_metrics = [p \in Procs |-> 0]
    /\ metrics = [p \in Procs |-> <<>>]
    /\ i = [p \in Procs |-> 0]
    /\ tuples = [p \in Procs |-> <<>>]
    /\ ncalls = [p \in Procs |-> 0]
    /\ ghost = [p \in Procs |-> NoGhost]
    /\ log = {}

(***************************************************************************)
(* History.  A call's ghost record is made when the call begins; the log   *)
(* gets one record for each counter_add call that has ended.               *)
(***************************************************************************)
\* whether an entry for name n is in the table
Live(n) == \E e \in 1..Len(hash) :
              hash[e].key.name_len = n.len /\ Bytes(hash[e].key.name_ptr) = n.ch

\* the names that have an entry in the table
LiveNames == {n \in Names : Live(n)}

Resting(q) == pc[q] \in {"idle", "crashed"}

\* a call by p begins: an enumeration another backend is in is no longer alone
Disturb(p, g) ==
    [q \in Procs |-> IF q = p THEN g
                     ELSE [ghost[q] EXCEPT !.quiet = FALSE]]

BeginGhost(p, o, n) ==
    [op |-> o, existed |-> Live(n), created |-> FALSE,
     quiet |-> \A q \in Procs \ {p} : Resting(q),
     live |-> IF o = "metrics" THEN LiveNames ELSE {},
     snap |-> {}]

\* applied is the increment the call added to the counter, 0 when it added none
Ended(p, k, n, kind, val, d, slot, g) ==
    [proc |-> p, k |-> k, name |-> n, existed |-> g.existed,
     created |-> g.created, kind |-> kind, val |-> val, applied |-> d,
     slot |-> slot, present |-> Live(n)]

(***************************************************************************)
(* pgmet_counter_add                                                       *)
(***************************************************************************)
\* lines 97-102: the name is too long, ereport(ERROR)
CounterAddReject(p, n) ==
    /\ pc[p] = "idle" /\ ncalls[p] < MaxCalls
    /\ NameTooLong(n)
    /\ ncalls' = [ncalls EXCEPT ![p] = @ + 1]
    /\ log' = log \cup {Ended(p, ncalls[p] + 1, n, "ERROR", 0, 0, 0,
                              BeginGhost(p, "add", n))}
    /\ ghost' = [ghost EXCEPT ![p] = NoGhost]
    /\ UNCHANGED <<shared, pc, addloc, metric, metloc>>

\* lines 104-108: no shared state, PG_RETURN_NULL
CounterAddNoShmem(p, n) ==
    /\ pc[p] = "idle" /\ ncalls[p] < MaxCalls
    /\ ~NameTooLong(n)
    /\ NoSharedState
    /\ ncalls' = [ncalls EXCEPT ![p] = @ + 1]
    /\ log' = log \cup {Ended(p, ncalls[p] + 1, n, "NULL", 0, 0, 0,
                              BeginGhost(p, "add", n))}
    /\ ghost' = [ghost EXCEPT ![p] = NoGhost]
    /\ UNCHANGED <<shared, pc, addloc, metric, metloc>>

\* line 110: text_to_cstring, and the call of pgmet_upsert_metric
CounterAddBegin(p, n) ==
    /\ pc[p] = "idle" /\ ncalls[p] < MaxCalls
    /\ ~NameTooLong(n)
    /\ ~NoSharedState
    /\ ncalls' = [ncalls EXCEPT ![p] = @ + 1]
    /\ ghost' = Disturb(p, BeginGhost(p, "add", n))
    /\ name' = [name EXCEPT ![p] = n]
    /\ pc' = [pc EXCEPT ![p] = "find_lock"]
    /\ UNCHANGED <<shared, prev, metric, metloc, log>>

\* pgmet_find_metric, line 227
FindLock(p) ==
    /\ pc[p] = "find_lock"
    /\ LWLockAcquire(p, "LW_SHARED")
    /\ pc' = [pc EXCEPT ![p] = "find_search"]
    /\ UNCHANGED <<pgmet, hash, addloc, metric, metloc, hist>>

\* pgmet_find_metric, lines 229-234, and the test of line 251
FindSearch(p) ==
    /\ pc[p] = "find_search"
    /\ LWLockRelease(p)
    /\ metric' = [metric EXCEPT ![p] = hash_search_find(MakeKey(p))]
    /\ pc' = [pc EXCEPT ![p] = IF metric'[p] # 0 THEN "spin" ELSE "upsert_lock"]
    /\ UNCHANGED <<pgmet, hash, addloc, metloc, hist>>

\* pgmet_upsert_metric, line 258
UpsertLock(p) ==
    /\ pc[p] = "upsert_lock"
    /\ LWLockAcquire(p, "LW_EXCLUSIVE")
    /\ pc' = [pc EXCEPT ![p] = "upsert_enter"]
    /\ UNCHANGED <<pgmet, hash, addloc, metric, metloc, hist>>

\* what counter_add does with a NULL from pgmet_upsert_metric (lines 111-115)
ReturnNull(p) ==
    /\ log' = log \cup {Ended(p, ncalls[p], name[p], "NULL", 0, 0, 0, ghost[p])}
    /\ name' = [name EXCEPT ![p] = NoName]
    /\ metric' = [metric EXCEPT ![p] = 0]
    /\ ghost' = [ghost EXCEPT ![p] = NoGhost]
    /\ pc' = [pc EXCEPT ![p] = "idle"]

\* pgmet_upsert_metric, lines 259-263: the table is full
UpsertFull(p) ==
    /\ pc[p] = "upsert_enter"
    /\ CapacityReached
    /\ LWLockRelease(p)
    /\ ReturnNull(p)
    /\ UNCHANGED <<pgmet, hash, prev, metloc, ncalls>>

\* pgmet_upsert_metric, lines 265-270: HASH_ENTER finds the entry
UpsertFound(p) ==
    /\ pc[p] = "upsert_enter"
    /\ ~CapacityReached
    /\ hash_search_find(MakeKey(p)) # 0
    /\ LWLockRelease(p)
    /\ metric' = [metric EXCEPT ![p] = hash_search_find(MakeKey(p))]
    /\ pc' = [pc EXCEPT ![p] = "spin"]
    /\ UNCHANGED <<pgmet, hash, addloc, metloc, hist>>

\* pgmet_upsert_metric, line 265: HASH_ENTER makes a new entry
UpsertEnter(p) ==
    /\ pc[p] = "upsert_enter"
    /\ ~CapacityReached
    /\ hash_search_find(MakeKey(p)) = 0
    /\ \E g \in Garbage : hash' = Append(hash, RawEntry(MakeKey(p), g))
    /\ metric' = [metric EXCEPT ![p] = Len(hash) + 1]
    /\ ghost' = [ghost EXCEPT ![p].created = TRUE]
    /\ pc' = [pc EXCEPT ![p] = "upsert_init"]
    /\ UNCHANGED <<pgmet, lock, addloc, metloc, ncalls, log>>

\* pgmet_upsert_metric, lines 273-287: the new entry is initialized
UpsertInit(p) ==
    /\ pc[p] = "upsert_init"
    /\ hash' = [hash EXCEPT ![metric[p]] = InitEntry(metric[p], p)]
    /\ LWLockRelease(p)
    /\ pc' = [pc EXCEPT ![p] = "spin"]
    /\ UNCHANGED <<pgmet, addloc, metric, metloc, hist>>

\* lines 117-118
AddRead(p) ==
    /\ pc[p] = "spin"
    /\ SpinLockFree(metric[p])
    /\ hash' = [hash EXCEPT ![metric[p]].mutex = p]
    /\ prev' = [prev EXCEPT ![p] = hash[metric[p]].value]
    /\ pc' = [pc EXCEPT ![p] = "add_write"]
    /\ UNCHANGED <<pgmet, lock, name, metric, metloc, hist>>

\* lines 119-122.  increment is the call's second argument; nothing reads it
\* before line 119, so the model draws it here
AddWrite(p, increment) ==
    /\ pc[p] = "add_write"
    /\ hash' = [hash EXCEPT ![metric[p]].value = Int64Add(@, increment),
                            ![metric[p]].mutex = 0]
    /\ log' = log \cup {Ended(p, ncalls[p], name[p], "VALUE", prev[p],
                              increment, metric[p], ghost[p])}
    /\ name' = [name EXCEPT ![p] = NoName]
    /\ prev' = [prev EXCEPT ![p] = 0]
    /\ metric' = [metric EXCEPT ![p] = 0]
    /\ ghost' = [ghost EXCEPT ![p] = NoGhost]
    /\ pc' = [pc EXCEPT ![p] = "idle"]
    /\ UNCHANGED <<pgmet, lock, metloc, ncalls>>

(***************************************************************************)
(* pgmet_metrics                                                           *)
(***************************************************************************)
\* the call, up to line 169
MetricsBegin(p) ==
    /\ pc[p] = "idle" /\ ncalls[p] < MaxCalls
    /\ ncalls' = [ncalls EXCEPT ![p] = @ + 1]
    /\ ghost' = Disturb(p, BeginGhost(p, "metrics", NoName))
    /\ num_metrics' = [num_metrics EXCEPT ![p] = 0]
    /\ metrics' = [metrics EXCEPT ![p] = <<>>]
    /\ i' = [i EXCEPT ![p] = 0]
    /\ tuples' = [tuples EXCEPT ![p] = <<>>]
    /\ pc' = [pc EXCEPT ![p] = "m_lock"]
    /\ UNCHANGED <<shared, addloc, metric, log>>

\* line 169 with pgmet == NULL: pgmet->lock reads through a null pointer, and
\* whatever comes of it the next line reads through pgmet_shared_hash == NULL
MetricsNullDeref(p) ==
    /\ pc[p] = "m_lock"
    /\ ~pgmet
    /\ pc' = [pc EXCEPT ![p] = "crashed"]
    /\ UNCHANGED <<shared, addloc, metric, metloc, hist>>

\* line 169
MetricsLock(p) ==
    /\ pc[p] = "m_lock"
    /\ pgmet
    /\ LWLockAcquire(p, "LW_SHARED")
    /\ pc' = [pc EXCEPT ![p] = "m_count"]
    /\ UNCHANGED <<pgmet, hash, addloc, metric, metloc, hist>>

\* lines 171-173
MetricsCount(p) ==
    /\ pc[p] = "m_count"
    /\ num_metrics' = [num_metrics EXCEPT ![p] = hash_get_num_entries]
    /\ pc' = [pc EXCEPT ![p] = "m_walk"]
    /\ UNCHANGED <<shared, addloc, metric, metrics, i, tuples, hist>>

\* lines 175-186: hash_seq_search yields every entry once
MetricsWalk(p) ==
    /\ pc[p] = "m_walk"
    /\ metrics' = [metrics EXCEPT ![p] = hash_seq_search]
    /\ i' = [i EXCEPT ![p] = 0]
    /\ LWLockRelease(p)
    /\ ghost' = [ghost EXCEPT ![p].snap = LiveNames]
    /\ pc' = [pc EXCEPT ![p] = "m_loop"]
    /\ UNCHANGED <<pgmet, hash, addloc, metric, num_metrics, tuples, ncalls, log>>

\* line 195 in a build with assertions: metric is read before line 197 sets
\* it; the read may trap or fault.  (It may also pass: MetricsSpinAcquire.)
MetricsAssertType(p) ==
    /\ pc[p] = "m_loop"
    /\ i[p] < num_metrics[p]
    /\ pc' = [pc EXCEPT ![p] = "crashed"]
    /\ UNCHANGED <<shared, addloc, metric, metloc, hist>>

\* lines 197-198
MetricsSpinAcquire(p) ==
    /\ pc[p] = "m_loop"
    /\ i[p] < num_metrics[p]
    /\ SpinLockFree(metrics[p][i[p] + 1])
    /\ metric' = [metric EXCEPT ![p] = metrics[p][i[p] + 1]]
    /\ hash' = [hash EXCEPT ![metrics[p][i[p] + 1]].mutex = p]
    /\ pc' = [pc EXCEPT ![p] = "m_read"]
    /\ UNCHANGED <<pgmet, lock, addloc, metloc, hist>>

\* lines 199-207
MetricsRead(p) ==
    /\ pc[p] = "m_read"
    /\ hash' = [hash EXCEPT ![metric[p]].mutex = 0]
    /\ tuples' = [tuples EXCEPT ![p] = Append(@, MetricTuple(metric[p]))]
    /\ i' = [i EXCEPT ![p] = @ + 1]
    /\ metric' = [metric EXCEPT ![p] = 0]
    /\ pc' = [pc EXCEPT ![p] = "m_loop"]
    /\ UNCHANGED <<pgmet, lock, addloc, num_metrics, metrics, hist>>

\* lines 210-216
MetricsReturn(p) ==
    /\ pc[p] = "m_loop"
    /\ i[p] >= num_metrics[p]
    /\ pc' = [pc EXCEPT ![p] = "idle"]
    /\ UNCHANGED <<shared, addloc, metric, metloc, hist>>

Next ==
    \E p \in Procs :
        \/ \E n \in Names :
              \/ CounterAddReject(p, n)
              \/ CounterAddNoShmem(p, n)
              \/ CounterAddBegin(p, n)
        \/ FindLock(p) \/ FindSearch(p)
        \/ UpsertLock(p) \/ UpsertFull(p) \/ UpsertFound(p)
        \/ UpsertEnter(p) \/ UpsertInit(p)
        \/ AddRead(p)
        \/ \E d \in Deltas : AddWrite(p, d)
        \/ MetricsBegin(p) \/ MetricsNullDeref(p) \/ MetricsLock(p)
        \/ MetricsCount(p) \/ MetricsWalk(p)
        \/ MetricsAssertType(p) \/ MetricsSpinAcquire(p) \/ MetricsRead(p)
        \/ MetricsReturn(p)

Spec == Init /\ [][Next]_vars

(***************************************************************************)
(* Vocabulary of the properties.                                           *)
(***************************************************************************)
\* the calls on name n that have ended
CallsOn(n) == {r \in log : r.name = n}

\* whether a counter_add call on name n is in progress
InFlight(n) == \E p \in Procs : name[p] = n

\* the entries that hold name n
SlotsOf(n) == {e \in 1..Len(hash) : hash[e].metric_name = n}

\* a name counter_add accepts
ValidNames == {n \in Names : n.len <= MAXMETRICSNAMELEN}

\* C1.  Counter correctness under contention.  Take a name whose counter
\* was created with value 0 (by a call that added 0) and on which every
\* other call began when the counter existed and, where it added anything,
\* added 1.  Once no call on the name is in progress, with K the number of
\* those other calls: each of them returned a value, the counter is K, and
\* the values they returned are 0, 1, ..., K-1, each once.
C1_Setup(n) ==
    /\ ~InFlight(n)
    /\ Cardinality({r \in CallsOn(n) : ~r.existed}) = 1
    /\ \A r \in CallsOn(n) :
          IF r.existed THEN r.kind = "VALUE" => r.applied = 1
          ELSE r.created /\ r.kind = "VALUE" /\ r.applied = 0

C1_Calls(n) == {r \in CallsOn(n) : r.existed}

C1_CounterCorrectness ==
    \A n \in ValidNames :
        C1_Setup(n) =>
            LET K == Cardinality(C1_Calls(n)) IN
            /\ \A r \in C1_Calls(n) : r.kind = "VALUE"
            /\ \A e \in SlotsOf(n) : hash[e].value = K
            /\ {r.val : r \in C1_Calls(n)} = 0..(K - 1)

C1_Witness ==
    /\ C1_Setup(NameA)
    /\ \E r1, r2 \in C1_Calls(NameA) : r1.proc # r2.proc
    /\ Cardinality(C1_Calls(NameA)) >= 2

\* C2 as stated.  Idempotent creation: of the calls that began when the name
\* was not in the table, once one has created it every one returns the
\* slot it created, which holds the name; no name has two entries.
C2_IdempotentCreation ==
    /\ \A n \in ValidNames : Cardinality(SlotsOf(n)) <= 1
    /\ \A r1, r2 \in log :
          (r1.name = r2.name /\ r1.created /\ ~r2.existed /\ r1.kind = "VALUE")
          => /\ r2.kind = "VALUE"
             /\ r2.slot = r1.slot
             /\ hash[r1.slot].metric_name = r1.name

\* C3 as stated.  With the shared state attached, a call returns NULL only
\* when its name is not in the table at the capacity test.
C3_NullOnlyForNewNames ==
    \A r \in log : (pgmet /\ r.kind = "NULL") => ~r.present

\* the enumerations that have returned
Enumerated(p) == pc[p] = "idle" /\ ghost[p].op = "metrics"

\* the names in the tuples of backend p
TupleNames(p) == {tuples[p][k][1] : k \in 1..Len(tuples[p])}

\* C4.  Capacity boundary.  The table never holds more than pgmet_max
\* entries.  A call fails to return a value only when the table is full, so
\* the names created while it was not full were all created; a call that
\* created its entry returned a value, and a value is only returned for a
\* name that has a slot of its own.  A call that began when its name was in
\* the table returned a value, and an enumeration returned every name that
\* was in the table when it began, also when the table is full.
C4_CapacityBoundary ==
    /\ Len(hash) <= pgmet_max
    /\ \A r \in log :
          /\ (pgmet /\ r.kind = "NULL") => Len(hash) = pgmet_max
          /\ r.created => r.kind = "VALUE"
          /\ r.kind = "VALUE" => /\ r.slot \in 1..Len(hash)
                                 /\ hash[r.slot].metric_name = r.name
          /\ r.existed => r.kind = "VALUE"
    /\ \A p \in Procs : Enumerated(p) => ghost[p].live \subseteq TupleNames(p)

C4_Witness ==
    /\ Len(hash) = pgmet_max
    /\ \E r1, r2 \in log :
          /\ r1.proc = r2.proc /\ r1.k < r2.k
          /\ r1.kind = "NULL" /\ ~r1.present
          /\ r2.kind = "VALUE" /\ r2.existed
    /\ Cardinality({r \in log : r.created}) = pgmet_max

\* what C5 asks of one step
C5_Step ==
    /\ Len(hash') >= Len(hash)
    /\ LiveNames \subseteq LiveNames'
    /\ \A e \in 1..Len(hash) :
          hash[e].type = "COUNTER" => hash'[e].metric_name = hash[e].metric_name
    /\ \A p \in Procs :
          (pc[p] = "find_search" /\ pc'[p] # "find_search")
          => \A r \in log : (r.name = name[p] /\ r.kind = "VALUE")
                            => metric'[p] = r.slot

\* C5.  Monotonic visibility.  No step removes an entry, changes the name of
\* an initialized entry or lowers the entry count (the set of live names
\* only grows), and a lookup that ends after a call on its name has returned
\* a slot finds that slot.
C5_MonotonicVisibility == [][C5_Step]_vars

C5_Witness ==
    \E r1, r2 \in log :
        /\ r1.created /\ r1.kind = "VALUE"
        /\ r2.name = r1.name /\ r2.proc # r1.proc
        /\ r2.existed /\ r2.slot = r1.slot
        /\ Len(hash) = pgmet_max

\* the sum of the increments the calls of S added
RECURSIVE SumApplied(_)
SumApplied(S) ==
    IF S = {} THEN 0
    ELSE LET r == CHOOSE x \in S : TRUE IN r.applied + SumApplied(S \ {r})

\* the signed value of IntBits bits that is congruent to x
Wrap64(x) == CHOOSE w \in Int64 : (x - w) % (2^IntBits) = 0

\* C6.  Enumeration completeness.  An enumeration that has returned, with no
\* other backend in a call from its beginning on, stored one tuple for each
\* name in the table and no other: the name, the label COUNTER and the sum
\* of the increments added to that name (in int64 arithmetic).
C6_EnumerationComplete ==
    \A p \in Procs :
        (Enumerated(p) /\ ghost[p].quiet) =>
            /\ Len(tuples[p]) = Cardinality(LiveNames)
            /\ {tuples[p][k] : k \in 1..Len(tuples[p])}
                 = {<<n, "COUNTER", Wrap64(SumApplied(CallsOn(n)))>> :
                        n \in LiveNames}

C6_Witness ==
    \E p \in Procs :
        /\ Enumerated(p) /\ ghost[p].quiet
        /\ Len(tuples[p]) = 2
        /\ \E k \in 1..2 : tuples[p][k][3] # 0

\* what C7 asks of one step
C7_Step ==
    /\ \A r \in log' \ log :
          /\ r.name.len > 127 <=> r.kind = "ERROR"
          /\ r.kind = "ERROR" =>
                /\ lock' = lock /\ hash' = hash
                /\ pc[r.proc] = "idle" /\ pc'[r.proc] = "idle"
    /\ \A p \in Procs : name'[p].len <= 127

\* C7.  Name length validation.  A call ends with the validation error if
\* and only if its name is longer than 127 bytes, whether or not the shared
\* state is attached; the step that rejects a name changes neither the lock
\* nor the table and the backend has taken no lock, and no call in progress
\* carries a name longer than 127 bytes.
C7_NameLengthValidation == [][C7_Step]_vars

C7_Witness ==
    /\ \E r \in log : r.kind = "ERROR" /\ r.name.len = 128
    /\ \E r \in log : r.kind = "VALUE" /\ r.name.len = 127

\* C8.  With no shared state attached, every counter_add call with a name
\* of at most 127 bytes returns NULL; no counter_add call gets as far as a
\* lock, and the lock and the table stay as they were.
C8_UninitReturnsNull ==
    ~pgmet =>
        /\ \A r \in log : r.name \in ValidNames => r.kind = "NULL"
        /\ \A p \in Procs : name[p] = NoName
        /\ lock = [excl |-> 0, shared |-> {}]
        /\ hash = <<>>

C8_Witness ==
    /\ ~pgmet
    /\ \E r \in log : r.name = NameB /\ r.kind = "NULL"

\* C9 as stated.  With no shared state attached every entry point is a
\* no-op: no call with a valid name raises an error, no backend is brought
\* down, and the lock and the table are not touched.
C9_UninitNoOp ==
    ~pgmet =>
        /\ \A r \in log : r.name \in ValidNames => r.kind = "NULL"
        /\ \A p \in Procs : pc[p] # "crashed"
        /\ lock = [excl |-> 0, shared |-> {}]
        /\ hash = <<>>

\* what C10 asks of one step
C10_Step ==
    /\ \A r \in log' \ log :
        r.kind = "VALUE" =>
            /\ r.val = hash[r.slot].value
            /\ hash'[r.slot].value \in Int64
            /\ hash'[r.slot].value = Wrap64(r.val + r.applied)
    /\ \A r \in log' \ log : r.kind = "ERROR" => r.name \notin ValidNames

\* C10.  The step that ends a counter_add call with a value returns the
\* value the counter had before the step and leaves the counter at that
\* value plus the increment, reduced to the int64 range by wrap-around; no
\* increment, positive, zero or negative, ends a call with an error.
C10_IncrementReturnsPrevious == [][C10_Step]_vars

C10_Witness ==
    /\ \E r \in log : r.kind = "VALUE" /\ r.val + r.applied < INT64_MIN
    /\ \E r \in log : r.kind = "VALUE" /\ r.val # 0 /\ r.applied = 1

(***************************************************************************)
(* The claims on the round trip, the locks and the life of a slot.         *)
(***************************************************************************)
\* the values of the entries that both tables hold are the same
SameValues(h1, h2) ==
    \A e \in 1..Len(h1) : e <= Len(h2) => h2[e].value = h1[e].value

\* C11 as stated.  Round trip: a counter_add call that adds 0 and returns a
\* value leaves the registry as it was: the call has added no name to the
\* table.
C11_RoundTripAsStated ==
    \A r \in log : (r.kind = "VALUE" /\ r.applied = 0) => ~r.created

\* what the amended C11 asks of one step
C11_Step ==
    /\ \A r \in log' \ log :
          (r.kind = "VALUE" /\ r.applied = 0) =>
              /\ r.val = hash[r.slot].value
              /\ hash' = [hash EXCEPT ![r.slot].mutex = 0]
              /\ LiveNames' = LiveNames
    /\ \A r \in log' \ log : r.existed => ~r.created
    /\ (Len(hash') # Len(hash) \/ LiveNames' # LiveNames) =>
          \E p \in Procs :
              /\ ~ghost[p].existed /\ ~ghost[p].created /\ ghost'[p].created
              /\ name[p] \notin LiveNames
              /\ LiveNames' = LiveNames \cup {name[p]}
              /\ Len(hash') = Len(hash) + 1
              /\ SameValues(hash, hash')

\* C11, amended.  A counter_add call that adds 0 and returns a value returns
\* the value the counter holds and its writing step changes no value and no
\* name.  A call whose name was in the table when it began never adds a
\* name.  The table gains a name only by the step of a call whose name was
\* not in the table when it began; that step adds that one name and changes
\* no value of another entry.
C11_RoundTrip == [][C11_Step]_vars

C11_Witness ==
    /\ \E r \in log : /\ r.kind = "VALUE" /\ r.applied = 0 /\ r.created
                      /\ r.val = 0
    /\ \E r \in log : /\ r.kind = "VALUE" /\ r.applied = 0 /\ r.existed
                      /\ r.val # 0

\* whether backend p holds the LWLock in either mode
HoldsLWLock(p) == lock.excl = p \/ p \in lock.shared

\* whether backend p holds the spinlock of some entry
HoldsSpinLock(p) == \E e \in 1..Len(hash) : hash[e].mutex = p

\* C12 as stated.  A counter_add call on a name that was in the table when
\* the call began never holds the LWLock, and is never kept waiting by a
\* backend that holds the LWLock in exclusive mode to create another name.
C12_NeverBlockedByCoarse ==
    \A p \in Procs :
        /\ (ghost[p].op = "add" /\ ghost[p].existed) => ~HoldsLWLock(p)
        /\ \A q \in Procs \ {p} :
              (/\ pc[p] = "find_lock" /\ ghost[p].existed
               /\ lock.excl = q /\ name[q] # name[p])
              => ENABLED FindLock(p)

\* what the amended C12 asks of one step
C12_Step ==
    \A p \in Procs :
        /\ pc[p] \in {"spin", "add_write"} =>
              /\ ~HoldsLWLock(p)
              /\ pc'[p] # pc[p] => lock' = lock
        /\ pc[p] = "spin" =>
              (ENABLED AddRead(p) <=> hash[metric[p]].mutex = 0)
        /\ pc[p] = "add_write" =>
              /\ hash[metric[p]].mutex = p
              /\ ENABLED AddWrite(p, 1)
        /\ pc[p] = "find_lock" => (ENABLED FindLock(p) <=> lock.excl = 0)

\* C12, amended.  The update of the value (lines 117-120) takes the
\* spinlock of its entry and never the LWLock: the backend holds the LWLock
\* in no mode from the return of the lookup on, its steps leave the LWLock
\* as it is, and it waits exactly when another backend holds the spinlock
\* of the same entry, whoever holds the LWLock.  The lookup that comes
\* before takes the LWLock in shared mode, also for a name that exists, and
\* waits exactly while a backend holds it in exclusive mode.
C12_SlotLockOnly == [][C12_Step]_vars

C12_Witness ==
    \E p, q \in Procs :
        /\ pc[p] = "add_write" /\ prev[p] # 0
        /\ lock.excl = q /\ pc[q] = "upsert_init"
        /\ name[q] # name[p]

\* what C13 asks of one step
C13_Step ==
    \A p \in Procs :
        /\ pc[p] \in {"find_lock", "find_search"} =>
              /\ lock.excl # p
              /\ ~ghost[p].created
        /\ (pc[p] = "find_lock" /\ pc'[p] # pc[p]) =>
              lock' = [lock EXCEPT !.shared = @ \cup {p}]
        /\ (pc[p] = "find_search" /\ Live(name[p]) /\ pc'[p] # pc[p]) =>
              /\ pc'[p] = "spin"
              /\ metric'[p] \in SlotsOf(name[p])
              /\ hash' = hash
              /\ lock.excl = 0
              /\ lock' = [lock EXCEPT !.shared = @ \ {p}]

\* C13.  Fast path.  A pgmet_upsert_metric call whose name is in the table
\* when pgmet_find_metric looks it up returns the entry of that name from
\* that step: up to there the call has taken the LWLock in shared mode only
\* and has made no entry, and the step that returns releases the shared
\* hold and leaves the table and every entry as they are.
C13_FastPath == [][C13_Step]_vars

C13_Witness ==
    \E p, q \in Procs :
        /\ pc[p] = "spin" /\ ghost[p].existed
        /\ metric[p] \in SlotsOf(name[p])
        /\ pc[q] = "find_search" /\ name[q] = name[p]
        /\ Len(hash) = pgmet_max

\* what C14 asks of one step
C14_Step ==
    /\ \A p \in Procs :
          /\ ~(HoldsLWLock(p) /\ HoldsSpinLock(p))
          /\ pc[p] \in {"find_lock", "upsert_lock", "m_lock"} =>
                ~HoldsSpinLock(p)
          /\ pc[p] \in {"m_loop", "m_read"} => ~HoldsLWLock(p)
          /\ pc[p] = "m_read" => hash[metric[p]].mutex = p
          /\ pc[p] = "upsert_init" =>
                /\ lock.excl = p
                /\ hash[metric[p]].mutex = -1
                /\ pc'[p] # pc[p] => hash'[metric[p]].mutex = 0
    /\ \A e \in 1..Len(hash) :
          (hash'[e].mutex # hash[e].mutex /\ hash'[e].mutex \in Procs) =>
              /\ hash[e].mutex = 0
              /\ ~HoldsLWLock(hash'[e].mutex)
    /\ (lock' # lock) => \A p \in Procs :
          (HoldsLWLock(p)' /\ ~HoldsLWLock(p)) => ~HoldsSpinLock(p)

\* C14.  Lock discipline.  No backend holds the LWLock and a spinlock at
\* the same time; a backend that is about to take the LWLock holds no
\* spinlock, and a backend takes a spinlock only when it is free and the
\* backend holds the LWLock in no mode.  pgmet_metrics reads the values
\* after it has released the LWLock, each under the spinlock of its entry.
\* The initialization of a new entry, under the exclusive hold, makes the
\* spinlock of the entry free (SpinLockInit) and never takes it.
C14_LockDiscipline == [][C14_Step]_vars

C14_Witness ==
    \E p, q \in Procs :
        /\ pc[p] = "m_read" /\ HoldsSpinLock(p)
        /\ pc[q] = "upsert_init" /\ lock.excl = q

(***************************************************************************)
(* Progress.  A backend that is in a call goes on running, and a lock that *)
(* is free again and again is in the end granted to a backend that waits   *)
(* for it (LWLocks queue their waiters).  Nothing makes a backend start a  *)
(* call.                                                                   *)
(***************************************************************************)
\* the steps of backend p inside a call
Run(p) ==
    \/ FindLock(p) \/ FindSearch(p)
    \/ UpsertLock(p) \/ UpsertFull(p) \/ UpsertFound(p)
    \/ UpsertEnter(p) \/ UpsertInit(p)
    \/ AddRead(p)
    \/ \E d \in Deltas : AddWrite(p, d)
    \/ MetricsNullDeref(p) \/ MetricsLock(p)
    \/ MetricsCount(p) \/ MetricsWalk(p)
    \/ MetricsAssertType(p) \/ MetricsSpinAcquire(p) \/ MetricsRead(p)
    \/ MetricsReturn(p)

Fairness ==
    \A p \in Procs :
        /\ WF_vars(Run(p))
        /\ SF_vars(FindLock(p)) /\ SF_vars(UpsertLock(p))
        /\ SF_vars(MetricsLock(p))
        /\ SF_vars(AddRead(p)) /\ SF_vars(MetricsSpinAcquire(p))

FairSpec == Spec /\ Fairness

\* a backend that is in a call
Unfinished(p) == pc[p] \notin {"idle", "crashed"}

\* a backend that waits for a lock another backend holds
Blocked(p) ==
    \/ pc[p] = "find_lock" /\ ~LWLockFreeFor("LW_SHARED")
    \/ pc[p] = "m_lock" /\ pgmet /\ ~LWLockFreeFor("LW_SHARED")
    \/ pc[p] = "upsert_lock" /\ ~LWLockFreeFor("LW_EXCLUSIVE")
    \/ pc[p] = "spin" /\ hash[metric[p]].mutex # 0
    \/ /\ pc[p] = "m_loop" /\ i[p] < num_metrics[p]
       /\ hash[metrics[p][i[p] + 1]].mutex # 0

\* in no state are all the backends that are in a call waiting for a lock
NoLockDeadlock ==
    (\E p \in Procs : Unfinished(p)) =>
        \E p \in Procs : Unfinished(p) /\ ~Blocked(p)

\* every counter_add call returns
CounterAddReturns ==
    \A p \in Procs : (ghost[p].op = "add") ~> (pc[p] = "idle")

WalkedNames(p) == {hash[metrics[p][k]].metric_name : k \in 1..Len(metrics[p])}

\* what C16 asks of one step
C16_Step ==
    /\ lock.shared # {} =>
          /\ Len(hash') = Len(hash)
          /\ LiveNames' = LiveNames
    /\ \A p \in Procs :
          /\ pc[p] \in {"m_count", "m_walk"} => p \in lock.shared
          /\ pc[p] = "m_walk" => num_metrics[p] = Len(hash)
          /\ (pc[p] = "m_walk" /\ pc'[p] # pc[p]) =>
                /\ Len(metrics'[p]) = num_metrics[p]
                /\ Cardinality(WalkedNames(p)') = num_metrics[p]
                /\ WalkedNames(p)' = LiveNames
                /\ ghost'[p].snap = LiveNames
                /\ ghost[p].live \subseteq LiveNames
          /\ (pc[p] = "m_loop" /\ pc'[p] = "idle") =>
                /\ Len(tuples[p]) = num_metrics[p]
                /\ TupleNames(p) = ghost[p].snap

\* C16.  Enumeration membership snapshot.  While a backend holds the LWLock
\* in shared mode the table gains no entry, so the count pgmet_metrics
\* reads and the number of entries it then walks are equal (the assertions
\* of lines 178 and 183 hold) and the entries walked are those of the names
\* in the table during that hold, each once.  An enumeration that returns
\* has stored one tuple for each of those names and for no other name: a
\* name created before the hold is among them, a name created after it is
\* not.
C16_MembershipSnapshot == [][C16_Step]_vars

C16_Witness ==
    \E p \in Procs :
        /\ Enumerated(p)
        /\ TupleNames(p) = ghost[p].snap
        /\ ghost[p].live # ghost[p].snap
        /\ LiveNames # ghost[p].snap

\* what C17 asks of one step
C17_Step ==
    \A p \in Procs :
        /\ pc[p] = "m_read" =>
              /\ hash[metric[p]].mutex = p
              /\ ~HoldsLWLock(p)
              /\ metric[p] = metrics[p][i[p] + 1]
              /\ \A q \in Procs \ {p} :
                    ~(pc[q] = "add_write" /\ metric[q] = metric[p])
              /\ pc'[p] = pc[p] =>
                    hash'[metric[p]].value = hash[metric[p]].value
              /\ pc'[p] # pc[p] =>
                    tuples'[p] =
                        Append(tuples[p], <<hash[metric[p]].metric_name,
                                            "COUNTER", hash[metric[p]].value>>)
        /\ pc[p] \in {"m_loop", "m_read"} =>
              \A q \in Procs \ {p} :
                  /\ pc[q] = "upsert_lock" =>
                        (ENABLED UpsertLock(q)
                             <=> (lock.excl = 0 /\ lock.shared = {}))
                  /\ pc[q] = "upsert_enter" =>
                        ENABLED (UpsertFull(q) \/ UpsertFound(q)
                                     \/ UpsertEnter(q))
                  /\ pc[q] = "upsert_init" => ENABLED UpsertInit(q)

\* C17.  Enumeration value reads.  pgmet_metrics reads each value while it
\* holds the spinlock of the entry and does not hold the LWLock; no other
\* backend is between its read and its write of that value and none
\* changes it during the hold, so the value stored in the tuple is the one
\* the counter holds at that step, after the walk and before the return.
\* While a backend reads values another backend's pgmet_upsert_metric is
\* not held up by it: it takes the exclusive hold as soon as no backend
\* holds the LWLock, and every step it takes under the hold is enabled.
C17_ValueReads == [][C17_Step]_vars

C17_Witness ==
    \E p, q \in Procs :
        /\ pc[p] = "m_read" /\ num_metrics[p] = 1
        /\ hash[metric[p]].value # 0
        /\ pc[q] = "upsert_init" /\ metric[q] = 2
        /\ \E r \in log : r.slot = metric[p] /\ r.proc = q /\ r.applied # 0

\* no backend is in a call
Quiescent == \A p \in Procs : Resting(p)

\* the calls on name n that returned a value
ValueCallsOn(n) == {r \in CallsOn(n) : r.kind = "VALUE"}

\* at quiescence every entry is initialized, was created by one call, and
\* holds the sum of the increments of the calls on its name that returned a
\* value, in int64 arithmetic
QuiescentSums ==
    Quiescent =>
        \A e \in 1..Len(hash) :
            /\ hash[e].type = "COUNTER"
            /\ Cardinality({r \in log : r.created /\ r.slot = e}) = 1
            /\ hash[e].value =
                   Wrap64(SumApplied(ValueCallsOn(hash[e].metric_name)))

\* what C18 asks of one step
C18_Step ==
    /\ \A e \in 1..Len(hash) :
          /\ hash[e].type = "COUNTER" =>
                /\ hash'[e].type = "COUNTER"
                /\ hash'[e].metric_name = hash[e].metric_name
                /\ hash'[e].key = hash[e].key
                /\ hash'[e].value # hash[e].value =>
                      /\ hash[e].mutex \in Procs
                      /\ pc[hash[e].mutex] = "add_write"
                      /\ \E r \in log' \ log :
                            /\ r.proc = hash[e].mutex /\ r.slot = e
                            /\ hash'[e].value =
                                   Wrap64(hash[e].value + r.applied)
          /\ hash[e].type # "COUNTER" =>
                /\ lock.excl \in Procs
                /\ pc[lock.excl] = "upsert_init" /\ metric[lock.excl] = e
                /\ ghost[lock.excl].created
                /\ hash'[e] # hash[e] =>
                      /\ hash'[e].type = "COUNTER"
                      /\ hash'[e].value = 0 /\ hash'[e].mutex = 0
                      /\ hash'[e].metric_name = name[lock.excl]
                      /\ hash'[e].key.name_ptr = InlineOf(e)
    /\ \A p \in Procs :
          (/\ pc[p] = "upsert_enter" /\ pc'[p] # pc[p]
           /\ ~CapacityReached /\ Live(name[p])) =>
              /\ hash' = hash
              /\ pc'[p] = "spin" /\ metric'[p] \in SlotsOf(name[p])
              /\ ~ghost'[p].created
    /\ QuiescentSums'

Initialized(e) ==
    /\ hash[e].key.name_ptr = InlineOf(e)
    /\ hash[e].metric_name # NoName
    /\ hash[e].metric_name.len = hash[e].key.name_len
    /\ Bytes(hash[e].key.name_ptr) = hash[e].metric_name.ch
    /\ hash[e].type = "COUNTER"
    /\ hash[e].mutex \in {0} \cup Procs

\* the keys of the table, in the order of its entries
IndexOf(h) == [e \in 1..Len(h) |-> h[e].key]

\* what C19 asks of one step
C19_Step ==
    /\ lock.excl # 0 => lock.shared = {}
    /\ \A p \in Procs :
          /\ pc[p] \in {"find_search", "m_count", "m_walk"} => p \in lock.shared
          /\ pc[p] \in {"upsert_enter", "upsert_init"} => lock.excl = p
          /\ HoldsLWLock(p) =>
                pc[p] \in {"find_search", "m_count", "m_walk",
                           "upsert_enter", "upsert_init"}
    /\ IndexOf(hash') # IndexOf(hash) =>
          /\ lock.excl \in Procs
          /\ pc'[lock.excl] # pc[lock.excl]
    /\ lock.shared # {} =>
          \A e \in 1..Len(hash) :
              /\ Initialized(e)
              /\ (\A r \in log : r.slot = e => r.applied = 0) =>
                    hash[e].value = 0

\* C19.  No partially initialized entry is observable.  The table is read
\* only by a backend that holds the LWLock, in shared or exclusive mode, and
\* changed only by the backend that holds it in exclusive mode, which
\* excludes every shared hold.  In every state where a backend holds the
\* LWLock in shared mode each entry is initialized: its key points at its
\* own metric_name, which holds the bytes of the name, the type is COUNTER,
\* the spinlock is initialized, and the value is 0 unless a counter_add call
\* has added something to it.
C19_NoPartialSlot == [][C19_Step]_vars

C19_Witness ==
    /\ lock.shared = Procs
    /\ Len(hash) = 2
    /\ hash[1].value # 0 /\ hash[2].value = 0
    /\ \E r \in log : r.slot = 2 /\ r.created

\* what C20 asks of one step
C20_Step ==
    /\ \A p \in Procs :
          /\ (pc[p] = "upsert_enter" /\ CapacityReached /\ pc'[p] # pc[p]) =>
                /\ hash' = hash
                /\ pc'[p] = "idle"
                /\ \E r \in log' \ log : r.proc = p /\ r.kind = "NULL"
          /\ pc'[p] \in {"idle", "spin"} =>
                /\ ~HoldsLWLock(p)'
                /\ ~HoldsSpinLock(p)'
    /\ \A r \in log' \ log :
          /\ ~HoldsLWLock(r.proc)' /\ ~HoldsSpinLock(r.proc)'
          /\ r.kind # "VALUE" =>
                /\ hash' = hash
                /\ ~r.created
                /\ lock'.excl \in {0, lock.excl}
                /\ lock'.shared = lock.shared

\* C20.  Failure leaves the registry unchanged and the locks released.  The
\* step of pgmet_upsert_metric that finds the table full leaves the table
\* and every entry as they are and ends the call with NULL; a call that
\* ends without a value has made no entry.  Whenever pgmet_upsert_metric
\* has returned (the entry was found, made, found at HASH_ENTER, or the
\* table was full) and whenever counter_add has returned (also with no
\* shared state attached), the backend holds neither the LWLock nor a
\* spinlock.
C20_FailureReleasesLocks == [][C20_Step]_vars

C20_Witness ==
    /\ Quiescent /\ pgmet
    /\ lock = [excl |-> 0, shared |-> {}]
    /\ \A e \in 1..Len(hash) : hash[e].mutex = 0
    /\ \E r \in log : r.kind = "NULL" /\ ~r.present
    /\ \E r \in log : r.kind = "VALUE" /\ r.created
    /\ \E r \in log : r.kind = "VALUE" /\ ~r.created /\ ~r.existed

=============================================================================
